---- MODULE Spec2Model ----
(***************************************************************************)
(* Model of streamlit_app.py: the recipe catalogue with per-user private   *)
(* recipes and favorites, persisted as JSON files, behind an email and     *)
(* password login.                                                         *)
(*                                                                         *)
(* Python strings are sequences of one-character strings.  Python dicts    *)
(* that the program shares between lists (a recipe appended to favorites   *)
(* is the same object as the one in user_recipes) live in a per-session    *)
(* heap: lists hold addresses, files hold values.                          *)
(***************************************************************************)
EXTENDS Integers, Sequences, FiniteSets, TLC

\* ------------------------------------------------------------ bounds
\* Longest private recipe list and favorites list an action may grow.
MaxUserRecipes == 2
MaxFavorites == 2
\* Largest id add-recipe may assign.
MaxId == 3

\* Browser sessions; each has its own st.session_state.
Sessions == {"tab1", "tab2"}

\* ------------------------------------------------------------ strings
Whitespace == {" ", "\t", "\n", "\r"}
LowerLetters == {"a","b","c","d","e","f","g","h","i","j","k","l","m",
                 "n","o","p","q","r","s","t","u","v","w","x","y","z"}
Digits == {"0","1","2","3","4","5","6","7","8","9"}
UpperToLower ==
    ("A" :> "a") @@ ("B" :> "b") @@ ("C" :> "c") @@ ("D" :> "d") @@
    ("E" :> "e") @@ ("F" :> "f") @@ ("G" :> "g") @@ ("H" :> "h") @@
    ("I" :> "i") @@ ("J" :> "j") @@ ("K" :> "k") @@ ("L" :> "l") @@
    ("M" :> "m") @@ ("N" :> "n") @@ ("O" :> "o") @@ ("P" :> "p") @@
    ("Q" :> "q") @@ ("R" :> "r") @@ ("S" :> "s") @@ ("T" :> "t") @@
    ("U" :> "u") @@ ("V" :> "v") @@ ("W" :> "w") @@ ("X" :> "x") @@
    ("Y" :> "y") @@ ("Z" :> "z")

\* str.lower()
lower(str) ==
    [i \in 1..Len(str) |->
        IF str[i] \in DOMAIN UpperToLower THEN UpperToLower[str[i]] ELSE str[i]]

RECURSIVE lstrip(_)
lstrip(str) ==
    IF str # <<>> /\ Head(str) \in Whitespace THEN lstrip(Tail(str)) ELSE str

RECURSIVE rstrip(_)
rstrip(str) ==
    IF str # <<>> /\ str[Len(str)] \in Whitespace
    THEN rstrip(SubSeq(str, 1, Len(str) - 1))
    ELSE str

\* str.strip()
strip(str) == rstrip(lstrip(str))

\* str.split(sep) for a one-character separator: the pieces between separators.
RECURSIVE split(_, _)
split(str, sep) ==
    IF \A i \in 1..Len(str) : str[i] # sep
    THEN <<str>>
    ELSE LET k == CHOOSE i \in 1..Len(str) :
                     str[i] = sep /\ \A j \in 1..(i - 1) : str[j] # sep
         IN <<SubSeq(str, 1, k - 1)>> \o split(SubSeq(str, k + 1, Len(str)), sep)

\* [i.strip() for i in text.splitlines() if i.strip()]
stripped_lines(text) ==
    LET lines == split(text, "\n")
        kept  == SelectSeq(lines, LAMBDA l : strip(l) # <<>>)
    IN [i \in 1..Len(kept) |-> strip(kept[i])]

\* ------------------------------------------------------------ auth helpers
\* The digest as a slip would compute it: of the salt alone.
hash_password_salt_only(pw, salt) == <<"sha256">> \o salt

\* hashlib.sha256((pw + salt).encode()).hexdigest(): the digest is modelled
\* as a collision-free function of the concatenated input.
hash_password(pw, salt) == <<"sha256">> \o pw \o salt

\* re.match(r"^[^@\s]+@[^@\s]+\.[^@\s]+$", email): a local part, one "@", and
\* a domain holding a "." that is neither its first nor its last character;
\* no "@" or whitespace inside any part.  "$" also matches before one
\* trailing newline.
PlainRun(str) ==
    str # <<>> /\ \A i \in 1..Len(str) : str[i] # "@" /\ str[i] \notin Whitespace

MatchesEmailPattern(str) ==
    \E at \in 1..Len(str) :
        /\ str[at] = "@"
        /\ PlainRun(SubSeq(str, 1, at - 1))
        /\ \E dot \in (at + 1)..Len(str) :
              /\ str[dot] = "."
              /\ PlainRun(SubSeq(str, at + 1, dot - 1))
              /\ PlainRun(SubSeq(str, dot + 1, Len(str)))

\* The check as a slip would write it: any text with an "@" in it.
validate_email_any_at(email) == \E i \in 1..Len(email) : email[i] = "@"

validate_email(email) ==
    \/ MatchesEmailPattern(email)
    \/ /\ email # <<>>
       /\ email[Len(email)] = "\n"
       /\ MatchesEmailPattern(SubSeq(email, 1, Len(email) - 1))

\* re.sub(r"[^a-z0-9]+", "_", email.strip().lower()): every maximal run of
\* characters outside a-z0-9 becomes one underscore.
RECURSIVE sub_non_alnum(_, _)
sub_non_alnum(str, in_run) ==
    IF str = <<>> THEN <<>>
    ELSE IF Head(str) \in LowerLetters \cup Digits
         THEN <<Head(str)>> \o sub_non_alnum(Tail(str), FALSE)
         ELSE (IF in_run THEN <<>> ELSE <<"_">>) \o sub_non_alnum(Tail(str), TRUE)

email_to_safe_id(email) == sub_non_alnum(lower(strip(email)), FALSE)

user_file_paths(email) ==
    LET safe == email_to_safe_id(email)
    IN [favorites    |-> <<"favorites_">> \o safe \o <<".json">>,
        user_recipes |-> <<"user_recipes_">> \o safe \o <<".json">>]

\* ------------------------------------------------------------ state
VARIABLES
    users_json,     \* users.json: normalized email -> account record
    recipes_json,   \* recipes.json: the shared recipes, a list of dicts
    user_files,     \* favorites_<safe>.json, user_recipes_<safe>.json: path -> list
    session_state,  \* st.session_state of each browser session
    heap,           \* the dict objects each session's lists refer to: address -> dict
    notice,         \* the st.error / st.success / st.toast shown by the last run
    shown           \* what page_search rendered in the last run of each session

vars == <<users_json, recipes_json, user_files, session_state, heap, notice, shown>>

\* A run that rendered no search: another page, or another button.
\* mode: the radio button; ran: whether the query passed the "if term:" test;
\* results: the recipes given to recipe_card, in order; matches: the count
\* printed above each card (none in single-ingredient mode).
NoSearch == [mode |-> "", ran |-> FALSE, results |-> <<>>, matches |-> <<>>]

\* A session_state without keys; a popped key's slot goes back to this value.
EmptySession ==
    [keys         |-> {},
     user         |-> [name |-> <<>>, email |-> <<>>],
     paths        |-> [favorites |-> <<>>, user_recipes |-> <<>>],
     recipes      |-> <<>>,
     user_recipes |-> <<>>,
     favorites    |-> <<>>]

Has(s, key) == key \in session_state[s].keys

\* ------------------------------------------------------------ objects
\* The lowest address not in use.
fresh(h) ==
    CHOOSE a \in 1..(Cardinality(DOMAIN h) + 1) :
        a \notin DOMAIN h /\ \A b \in 1..(a - 1) : b \in DOMAIN h

\* One new dict per value (json.load, or a dict literal): the heap after, and
\* the list of the new addresses.
RECURSIVE alloc(_, _)
alloc(h, values) ==
    IF values = <<>> THEN [heap |-> h, refs |-> <<>>]
    ELSE LET a == fresh(h)
             r == alloc(h @@ (a :> Head(values)), Tail(values))
         IN [heap |-> r.heap, refs |-> <<a>> \o r.refs]

\* The list of dicts a list of references denotes (what json.dump writes).
deref(h, refs) == [i \in 1..Len(refs) |-> h[refs[i]]]

Range(seq) == {seq[i] : i \in 1..Len(seq)}

\* The distinct elements of seq, in order of first occurrence.
RECURSIVE first_seen(_, _)
first_seen(seq, seen) ==
    IF seq = <<>> THEN <<>>
    ELSE IF Head(seq) \in seen
         THEN first_seen(Tail(seq), seen)
         ELSE <<Head(seq)>> \o first_seen(Tail(seq), seen \cup {Head(seq)})

\* Objects no list of the session refers to are reclaimed, and the live ones
\* are numbered in the order recipes, user_recipes, favorites reach them: an
\* address is only a name for an object, so two heaps that differ by a
\* renaming are the same program state.
collect(h, st) ==
    LET live == first_seen(st.recipes \o st.user_recipes \o st.favorites, {})
        at(a) == CHOOSE i \in 1..Len(live) : live[i] = a
        moved(refs) == [i \in 1..Len(refs) |-> at(refs[i])]
    IN [st   |-> [st EXCEPT !.recipes = moved(@),
                            !.user_recipes = moved(@),
                            !.favorites = moved(@)],
        heap |-> [i \in 1..Len(live) |-> h[live[i]]]]

\* ------------------------------------------------------------ files
\* What a file holds when it is not JSON: json.load raises on it.
Damaged == <<[damaged |-> TRUE]>>

\* The default when the file is missing or json.load raises.
load_json(file_path, default) ==
    IF file_path \in DOMAIN user_files /\ user_files[file_path] # Damaged
    THEN user_files[file_path]
    ELSE default

\* The write as a merge would do it: the file keeps what it held and gains
\* the entries of data it did not hold.
save_json_merge(file_path, data) ==
    LET held == IF file_path \in DOMAIN user_files THEN user_files[file_path] ELSE <<>>
        added == SelectSeq(data, LAMBDA d : \A i \in 1..Len(held) : held[i] # d)
    IN [p \in DOMAIN user_files \cup {file_path} |->
           IF p = file_path THEN held \o added ELSE user_files[p]]

\* json.dump(data, f): the file is rewritten whole.
save_json(file_path, data) ==
    [p \in DOMAIN user_files \cup {file_path} |->
        IF p = file_path THEN data ELSE user_files[p]]

\* ------------------------------------------------------------ session set-up
\* initialize_state_for_user, run at the start of every signed-in script run:
\* each collection is loaded only when its key is missing.
initialize_state_for_user(st, h) ==
    LET r  == IF "recipes" \in st.keys
              THEN [heap |-> h, refs |-> st.recipes]
              ELSE alloc(h, recipes_json)
        signed == "user" \in st.keys /\ "paths" \in st.keys
        u  == IF signed /\ "user_recipes" \notin st.keys
              THEN alloc(r.heap, load_json(st.paths.user_recipes, <<>>))
              ELSE [heap |-> r.heap, refs |-> st.user_recipes]
        f  == IF signed /\ "favorites" \notin st.keys
              THEN alloc(u.heap, load_json(st.paths.favorites, <<>>))
              ELSE [heap |-> u.heap, refs |-> st.favorites]
    IN [st   |-> [st EXCEPT !.keys = @ \cup {"recipes"}
                                       \cup (IF signed THEN {"user_recipes", "favorites"} ELSE {}),
                            !.recipes = r.refs,
                            !.user_recipes = u.refs,
                            !.favorites = f.refs],
        heap |-> f.heap]

get_all_recipes(s) == session_state[s].recipes \o session_state[s].user_recipes

\* Identity as a slip would write it: by id alone.
is_same_recipe_by_id(a, b) == a.id = b.id

is_same_recipe(a, b) == a.id = b.id /\ a.name = b.name

\* in_favorites, for the dict `recipe` against the list of dicts `favs`.
in_favorites(recipe, favs) ==
    \E i \in 1..Len(favs) : is_same_recipe(recipe, favs[i])

\* in_favorites as the program calls it: on an object of session s.
InFavorites(s, a) ==
    in_favorites(heap[s][a], deref(heap[s], session_state[s].favorites))

\* add_to_favorites: the favorites list (of references) after the call; the
\* reference itself is appended.
add_to_favorites(s, a) ==
    IF ~InFavorites(s, a)
    THEN Append(session_state[s].favorites, a)
    ELSE session_state[s].favorites

\* remove_from_favorites: the favorites list after the call.
remove_from_favorites(s, a) ==
    SelectSeq(session_state[s].favorites,
              LAMBDA r : ~is_same_recipe(heap[s][r], heap[s][a]))

\* ------------------------------------------------------------ auth_gate
MinPasswordLen == 6
\* datetime.now() of the run, as text; one value stands for the clock.
Now == <<"2025-01-01">>

SignedIn(s) == Has(s, "user")

\* The "Create account" form of auth_gate.
Register(s, name, email, password, salt) ==
    /\ ~SignedIn(s)
    /\ IF strip(name) = <<>>
       THEN /\ notice' = [notice EXCEPT ![s] = "Please provide your name."]
            /\ UNCHANGED <<users_json, session_state, heap>>
       ELSE IF ~validate_email(email)
       THEN /\ notice' = [notice EXCEPT ![s] = "Please provide a valid email address."]
            /\ UNCHANGED <<users_json, session_state, heap>>
       ELSE IF Len(password) < MinPasswordLen
       THEN /\ notice' = [notice EXCEPT ![s] = "Password must be at least 6 characters."]
            /\ UNCHANGED <<users_json, session_state, heap>>
       ELSE LET key == lower(strip(email)) IN
            IF key \in DOMAIN users_json
            THEN /\ notice' = [notice EXCEPT ![s] = "An account with this email already exists."]
                 /\ UNCHANGED <<users_json, session_state, heap>>
            ELSE LET paths == user_file_paths(key)
                     ur == alloc(heap[s], load_json(paths.user_recipes, <<>>))
                     fv == alloc(ur.heap, load_json(paths.favorites, <<>>))
                     st == [session_state[s] EXCEPT
                               !.keys = @ \cup {"user", "paths", "user_recipes", "favorites"},
                               !.user = [name |-> strip(name), email |-> key],
                               !.paths = paths,
                               !.user_recipes = ur.refs,
                               !.favorites = fv.refs]
                     r == initialize_state_for_user(st, fv.heap)
                     c == collect(r.heap, r.st)
                 IN /\ users_json' = users_json @@
                           (key :> [name          |-> strip(name),
                                    email         |-> key,
                                    password_hash |-> hash_password(password, salt),
                                    salt          |-> salt,
                                    created_at    |-> Now])
                    /\ session_state' = [session_state EXCEPT ![s] = c.st]
                    /\ heap' = [heap EXCEPT ![s] = c.heap]
                    /\ notice' = [notice EXCEPT ![s] = "Account created! Logging you in..."]
    /\ UNCHANGED <<recipes_json, user_files>>
    /\ shown' = [shown EXCEPT ![s] = NoSearch]

\* The "Login" form of auth_gate.
Login(s, email, password) ==
    /\ ~SignedIn(s)
    /\ LET key == lower(strip(email)) IN
       IF key \notin DOMAIN users_json
       THEN /\ notice' = [notice EXCEPT ![s] = "Account not found."]
            /\ UNCHANGED <<session_state, heap>>
       ELSE LET u == users_json[key] IN
            IF hash_password(password, u.salt) = u.password_hash
            THEN LET paths == user_file_paths(u.email)
                     old == session_state[s]
                     ur == IF "user_recipes" \notin old.keys
                           THEN alloc(heap[s], load_json(paths.user_recipes, <<>>))
                           ELSE [heap |-> heap[s], refs |-> old.user_recipes]
                     fv == IF "favorites" \notin old.keys
                           THEN alloc(ur.heap, load_json(paths.favorites, <<>>))
                           ELSE [heap |-> ur.heap, refs |-> old.favorites]
                     st == [old EXCEPT
                               !.keys = @ \cup {"user", "paths", "user_recipes", "favorites"},
                               !.user = [name |-> u.name, email |-> u.email],
                               !.paths = paths,
                               !.user_recipes = ur.refs,
                               !.favorites = fv.refs]
                     r == initialize_state_for_user(st, fv.heap)
                     c == collect(r.heap, r.st)
                 IN /\ session_state' = [session_state EXCEPT ![s] = c.st]
                    /\ heap' = [heap EXCEPT ![s] = c.heap]
                    /\ notice' = [notice EXCEPT ![s] = ""]
            ELSE /\ notice' = [notice EXCEPT ![s] = "Invalid password."]
                 /\ UNCHANGED <<session_state, heap>>
    /\ UNCHANGED <<users_json, recipes_json, user_files>>
    /\ shown' = [shown EXCEPT ![s] = NoSearch]

\* The keys as a slip would list them: the account, not its collections.
logout_keys_account_only == {"user", "paths"}

\* The keys logout pops, of those the model keeps.
logout_keys == {"user", "paths", "favorites", "user_recipes"}

\* logout: pops the user's keys (recipes stays), then reruns into auth_gate.
\* The rand_* keys it also pops belong to the random page, which is left out:
\* its cards act on the same recipes as the cards of the other pages.
Logout(s) ==
    /\ SignedIn(s)
    /\ LET popped(key, value) == IF key \in logout_keys THEN EmptySession[key] ELSE value
           st == [session_state[s] EXCEPT
                     !.keys = @ \ logout_keys,
                     !.user = popped("user", @),
                     !.paths = popped("paths", @),
                     !.favorites = popped("favorites", @),
                     !.user_recipes = popped("user_recipes", @)]
           c == collect(heap[s], st)
       IN /\ session_state' = [session_state EXCEPT ![s] = c.st]
          /\ heap' = [heap EXCEPT ![s] = c.heap]
    /\ notice' = [notice EXCEPT ![s] = ""]
    /\ UNCHANGED <<users_json, recipes_json, user_files>>
    /\ shown' = [shown EXCEPT ![s] = NoSearch]

\* ------------------------------------------------------------ pages
\* The recipes some page shows as a card: the pages list get_all_recipes or
\* the favorites.
Displayable(s) ==
    Range(get_all_recipes(s)) \cup Range(session_state[s].favorites)

\* recipe_card, the "Add" button (shown when the recipe is not a favorite).
RecipeCardAdd(s, a) ==
    /\ SignedIn(s)
    /\ a \in Displayable(s)
    /\ ~InFavorites(s, a)
    /\ Len(session_state[s].favorites) < MaxFavorites
    /\ LET favs == add_to_favorites(s, a)
           c == collect(heap[s], [session_state[s] EXCEPT !.favorites = favs])
       IN /\ session_state' = [session_state EXCEPT ![s] = c.st]
          /\ heap' = [heap EXCEPT ![s] = c.heap]
          /\ user_files' = IF ~InFavorites(s, a)
                           THEN save_json(session_state[s].paths.favorites,
                                          deref(heap[s], favs))
                           ELSE user_files
    /\ notice' = [notice EXCEPT ![s] = "Added to favorites"]
    /\ UNCHANGED <<users_json, recipes_json>>
    /\ shown' = [shown EXCEPT ![s] = NoSearch]

\* recipe_card, the "Remove" button (shown when the recipe is a favorite).
RecipeCardRemove(s, a) ==
    /\ SignedIn(s)
    /\ a \in Displayable(s)
    /\ InFavorites(s, a)
    /\ LET favs == remove_from_favorites(s, a)
           st == [session_state[s] EXCEPT !.favorites = favs]
           c == collect(heap[s], st)
       IN /\ session_state' = [session_state EXCEPT ![s] = c.st]
          /\ heap' = [heap EXCEPT ![s] = c.heap]
          /\ user_files' = save_json(st.paths.favorites, deref(heap[s], favs))
    /\ notice' = [notice EXCEPT ![s] = "Removed from favorites"]
    /\ UNCHANGED <<users_json, recipes_json>>
    /\ shown' = [shown EXCEPT ![s] = NoSearch]

Unknown == <<"U", "n", "k", "n", "o", "w", "n">>
\* datetime.now().strftime("%Y-%m-%d"); one value stands for the clock.
Today == <<"2025-01-01">>

\* max([...], default=0)
MaxOf(ids) == IF ids = {} THEN 0 ELSE CHOOSE m \in ids : \A i \in ids : i <= m

\* Variants of new_id a slip would produce: the length of the list instead of
\* its largest id, and the largest id of the private list alone.
new_id_by_count(s) == Len(get_all_recipes(s)) + 1
new_id_private_only(s) ==
    MaxOf({heap[s][a].id : a \in Range(session_state[s].user_recipes)}) + 1

\* new_id of page_add_recipe
new_id(s) == MaxOf({heap[s][a].id : a \in Range(get_all_recipes(s))}) + 1

\* The name check as a slip would write it: trimmed, but case-sensitive.
name_exists_case_sensitive(s, name) ==
    \E a \in Range(get_all_recipes(s)) : strip(heap[s][a].name) = strip(name)

\* The name check of page_add_recipe.
name_exists(s, name) ==
    \E a \in Range(get_all_recipes(s)) :
        lower(strip(heap[s][a].name)) = lower(strip(name))

\* page_add_recipe, the submitted form.
PageAddRecipe(s, name, category, cook_time, ingredients_text, instructions) ==
    /\ SignedIn(s)
    /\ IF name = <<>> \/ ingredients_text = <<>> \/ instructions = <<>>
       THEN /\ notice' = [notice EXCEPT ![s] = "Please fill in name, ingredients, and instructions."]
            /\ UNCHANGED <<session_state, heap, user_files>>
       ELSE IF name_exists(s, name)
       THEN /\ notice' = [notice EXCEPT ![s] = "Recipe already exists."]
            /\ UNCHANGED <<session_state, heap, user_files>>
       ELSE /\ Len(session_state[s].user_recipes) < MaxUserRecipes
            /\ new_id(s) <= MaxId
            /\ LET new_recipe ==
                       [id           |-> new_id(s),
                        category     |-> category,
                        name         |-> strip(name),
                        ingredients  |-> stripped_lines(ingredients_text),
                        cook_time    |-> IF strip(cook_time) # <<>>
                                         THEN strip(cook_time) ELSE Unknown,
                        instructions |-> strip(instructions),
                        created_by   |-> "user",
                        created_date |-> Today]
                   r == alloc(heap[s], <<new_recipe>>)
                   ur == session_state[s].user_recipes \o r.refs
                   c == collect(r.heap, [session_state[s] EXCEPT !.user_recipes = ur])
               IN /\ heap' = [heap EXCEPT ![s] = c.heap]
                  /\ session_state' = [session_state EXCEPT ![s] = c.st]
                  /\ user_files' = save_json(session_state[s].paths.user_recipes,
                                             deref(r.heap, ur))
            /\ notice' = [notice EXCEPT ![s] = "Recipe added!"]
    /\ UNCHANGED <<users_json, recipes_json>>
    /\ shown' = [shown EXCEPT ![s] = NoSearch]

\* The edit as a replace: the trimmed field, blank or not.
strip_always(value, old) == strip(value)

\* value.strip() or old
strip_or(value, old) == IF strip(value) # <<>> THEN strip(value) ELSE old

\* The list of page_my_recipes as a slip would take it: every recipe.
listed_recipes_all(s) == get_all_recipes(s)

\* The list page_my_recipes enumerates, one edit form per entry.
listed_recipes(s) == session_state[s].user_recipes

\* page_my_recipes, "Save Changes" on the recipe at position idx: the dict is
\* updated in place, then the private list is saved.
EditRecipe(s, idx, new_name, new_category, new_time, new_ingredients, new_instructions) ==
    /\ SignedIn(s)
    /\ idx \in 1..Len(listed_recipes(s))
    /\ LET a == listed_recipes(s)[idx]
           recipe == heap[s][a]
           ings == stripped_lines(new_ingredients)
           edited == [recipe EXCEPT
                         !.name = strip_or(new_name, @),
                         !.category = new_category,
                         !.cook_time = strip_or(new_time, @),
                         !.ingredients = IF ings # <<>> THEN ings ELSE @,
                         !.instructions = strip_or(new_instructions, @)]
           h == [heap[s] EXCEPT ![a] = edited]
       IN /\ heap' = [heap EXCEPT ![s] = h]
          /\ user_files' = save_json(session_state[s].paths.user_recipes,
                                     deref(h, session_state[s].user_recipes))
    /\ notice' = [notice EXCEPT ![s] = "Recipe updated successfully!"]
    /\ UNCHANGED <<users_json, recipes_json, session_state>>
    /\ shown' = [shown EXCEPT ![s] = NoSearch]

\* page_my_recipes, "Delete Recipe" on the recipe at position idx.
DeleteRecipe(s, idx) ==
    /\ SignedIn(s)
    /\ idx \in 1..Len(session_state[s].user_recipes)
    /\ LET old == session_state[s].user_recipes
           ur == SubSeq(old, 1, idx - 1) \o SubSeq(old, idx + 1, Len(old))
           st == [session_state[s] EXCEPT !.user_recipes = ur]
           c == collect(heap[s], st)
       IN /\ session_state' = [session_state EXCEPT ![s] = c.st]
          /\ heap' = [heap EXCEPT ![s] = c.heap]
          /\ user_files' = save_json(st.paths.user_recipes, deref(heap[s], ur))
    /\ notice' = [notice EXCEPT ![s] = "Recipe deleted"]
    /\ UNCHANGED <<users_json, recipes_json>>
    /\ shown' = [shown EXCEPT ![s] = NoSearch]

\* A file of the data directory is damaged from outside the program (a
\* truncated write, an editor): load_json will fall back to its default.
DamageFile(file_path) ==
    /\ file_path \in DOMAIN user_files
    /\ user_files[file_path] # Damaged
    /\ user_files' = [user_files EXCEPT ![file_path] = Damaged]
    /\ UNCHANGED <<users_json, recipes_json, session_state, heap, notice, shown>>

\* ------------------------------------------------------------ page_search
\* needle in hay, for Python strings.
contains(hay, needle) ==
    \E i \in 1..(Len(hay) - Len(needle) + 1) :
        SubSeq(hay, i, i + Len(needle) - 1) = needle

\* [t.strip().lower() for t in text.split(",") if t.strip()]
query_terms(text) ==
    LET kept == SelectSeq(split(text, ","), LAMBDA t : strip(t) # <<>>)
    IN [i \in 1..Len(kept) |-> lower(strip(kept[i]))]

\* The test as a slip would write it: without lowering the ingredient.
has_ingredient_as_written(recipe, term) ==
    \E i \in 1..Len(recipe.ingredients) : contains(recipe.ingredients[i], term)

\* any(term in i.lower() for i in r.get("ingredients", []))
has_ingredient(recipe, term) ==
    \E i \in 1..Len(recipe.ingredients) : contains(lower(recipe.ingredients[i]), term)

\* The count as a slip would write it: of the terms, matching or not.
count_matches_all(recipe, terms) == Len(terms)

\* sum(1 for t in terms if any(t in i for i in ings)): one per position of
\* the list of terms.
count_matches(recipe, terms) ==
    Cardinality({k \in 1..Len(terms) : has_ingredient(recipe, terms[k])})

\* The sort as a slip would write it: ascending, then reversed, which turns
\* the ties around.
RECURSIVE sort_then_reverse(_)
sort_then_reverse(ranked) ==
    IF ranked = <<>> THEN <<>>
    ELSE LET rest == sort_then_reverse(SubSeq(ranked, 1, Len(ranked) - 1))
             e == ranked[Len(ranked)]
             k == Cardinality({i \in 1..Len(rest) : rest[i].m > e.m})
         IN SubSeq(rest, 1, k) \o <<e>> \o SubSeq(rest, k + 1, Len(rest))

\* ranked.sort(key=lambda x: x[1], reverse=True): list.sort is stable, also
\* with reverse=True, so an entry goes behind the entries that came before it
\* and have at least its count.
RECURSIVE sort_by_matches(_)
sort_by_matches(ranked) ==
    IF ranked = <<>> THEN <<>>
    ELSE LET rest == sort_by_matches(SubSeq(ranked, 1, Len(ranked) - 1))
             e == ranked[Len(ranked)]
             k == Cardinality({i \in 1..Len(rest) : rest[i].m >= e.m})
         IN SubSeq(rest, 1, k) \o <<e>> \o SubSeq(rest, k + 1, Len(rest))

\* What the page shows for a sorted list of (recipe, count) pairs.
Ranked(mode, ranked) ==
    [mode    |-> mode,
     ran     |-> TRUE,
     results |-> [i \in 1..Len(ranked) |-> ranked[i].r],
     matches |-> [i \in 1..Len(ranked) |-> ranked[i].m]]

\* page_search in "Single Ingredient" mode, with the text of the input box.
SearchSingle(s, term) ==
    /\ SignedIn(s)
    /\ LET all_recipes == get_all_recipes(s)
           term_l == lower(strip(term))
           results == SelectSeq(all_recipes, LAMBDA a : has_ingredient(heap[s][a], term_l))
       IN IF all_recipes = <<>>
          THEN /\ shown' = [shown EXCEPT ![s] = NoSearch]
               /\ notice' = [notice EXCEPT ![s] = "No recipes available."]
          ELSE IF term = <<>>
          THEN /\ shown' = [shown EXCEPT ![s] = [NoSearch EXCEPT !.mode = "Single Ingredient"]]
               /\ notice' = [notice EXCEPT ![s] = ""]
          ELSE /\ shown' = [shown EXCEPT ![s] =
                               [mode |-> "Single Ingredient", ran |-> TRUE,
                                results |-> results, matches |-> <<>>]]
               /\ notice' = [notice EXCEPT ![s] =
                                IF results # <<>> THEN "Found result(s)"
                                ELSE "No recipes found with that ingredient."]
    /\ UNCHANGED <<users_json, recipes_json, user_files, session_state, heap>>

\* page_search in "Multiple Ingredients" mode.
SearchMulti(s, terms_s) ==
    /\ SignedIn(s)
    /\ LET all_recipes == get_all_recipes(s)
           terms == query_terms(terms_s)
           scored == [i \in 1..Len(all_recipes) |->
                         [r |-> all_recipes[i],
                          m |-> count_matches(heap[s][all_recipes[i]], terms)]]
           ranked == sort_by_matches(SelectSeq(scored, LAMBDA x : x.m > 0))
       IN IF all_recipes = <<>>
          THEN /\ shown' = [shown EXCEPT ![s] = NoSearch]
               /\ notice' = [notice EXCEPT ![s] = "No recipes available."]
          ELSE IF terms_s = <<>>
          THEN /\ shown' = [shown EXCEPT ![s] = [NoSearch EXCEPT !.mode = "Multiple Ingredients"]]
               /\ notice' = [notice EXCEPT ![s] = ""]
          ELSE /\ shown' = [shown EXCEPT ![s] = Ranked("Multiple Ingredients", ranked)]
               /\ notice' = [notice EXCEPT ![s] =
                                IF ranked # <<>> THEN "Found result(s)"
                                ELSE "No recipes found with those ingredients."]
    /\ UNCHANGED <<users_json, recipes_json, user_files, session_state, heap>>

\* page_search in "Advanced" mode, with the texts of the two input boxes.
SearchAdvanced(s, must, can) ==
    /\ SignedIn(s)
    /\ LET all_recipes == get_all_recipes(s)
           must_list == query_terms(must)
           can_list == query_terms(can)
           must_ok(recipe) ==
               IF must_list # <<>>
               THEN \A k \in 1..Len(must_list) : has_ingredient(recipe, must_list[k])
               ELSE TRUE
           can_matches(recipe) ==
               IF can_list # <<>> THEN count_matches(recipe, can_list) ELSE 0
           scored == [i \in 1..Len(all_recipes) |->
                         [r |-> all_recipes[i],
                          m |-> can_matches(heap[s][all_recipes[i]])]]
           ranked == sort_by_matches(
                         SelectSeq(scored, LAMBDA x :
                             /\ must_ok(heap[s][x.r])
                             /\ (can_list = <<>> \/ x.m > 0)))
       IN IF all_recipes = <<>>
          THEN /\ shown' = [shown EXCEPT ![s] = NoSearch]
               /\ notice' = [notice EXCEPT ![s] = "No recipes available."]
          ELSE IF must = <<>> /\ can = <<>>
          THEN /\ shown' = [shown EXCEPT ![s] = [NoSearch EXCEPT !.mode = "Advanced"]]
               /\ notice' = [notice EXCEPT ![s] = ""]
          ELSE /\ shown' = [shown EXCEPT ![s] = Ranked("Advanced", ranked)]
               /\ notice' = [notice EXCEPT ![s] =
                                IF ranked # <<>> THEN "Found result(s)"
                                ELSE "No recipes found matching your criteria."]
    /\ UNCHANGED <<users_json, recipes_json, user_files, session_state, heap>>

\* ------------------------------------------------------------ inputs
\* A shared recipe as recipes.json holds it.
SharedRecipe ==
    [id           |-> 1,
     category     |-> "breakfast",
     name         |-> <<"B">>,
     ingredients  |-> <<<<"E", "g", "g", "s">>>>,
     cook_time    |-> <<"5">>,
     instructions |-> <<"m">>,
     created_by   |-> "system",
     created_date |-> Today]

RecipesJsonChoices == {<<>>, <<SharedRecipe>>}

UserNames == {<<"A", "l">>}
Emails == {<<"a", ".", "b", "@", "c", ".", "d">>}
GoodPassword == <<"a", "b", "c", "1", "2", "3">>
Passwords == {GoodPassword}
\* secrets.token_hex(16) draws a random hex string; the value stands for it.
Salts == {<<"0", "0">>}

RecipeNames == {<<>>, <<"a">>, <<" ", "b">>}
IngredientTexts == {<<>>, <<"x", "\n", " ", "y">>}
InstructionTexts == {<<>>, <<"m">>}
CookTimes == {<<>>}
Categories == {"healthy"}
EditNames == {<<" ">>, <<"a">>, <<"b">>}
EditTexts == {<<>>}

\* The edit forms of the edit specification: every field blank, each field
\* filled in alone with blanks around it, and every field filled in.
BlankEdit ==
    [name |-> <<" ">>, category |-> "healthy", cook_time |-> <<>>,
     ingredients |-> <<"\n", " ">>, instructions |-> <<" ">>]
EditForms ==
    {BlankEdit,
     [BlankEdit EXCEPT !.name = <<" ", "c", " ">>],
     [BlankEdit EXCEPT !.cook_time = <<"9", " ">>],
     [BlankEdit EXCEPT !.ingredients = <<" ", "z", "\n", "\n", "w", " ">>],
     [BlankEdit EXCEPT !.instructions = <<" ", "n">>],
     [name |-> <<"c">>, category |-> "vegetarian", cook_time |-> <<"9">>,
      ingredients |-> <<"z", "\n", "w">>, instructions |-> <<"n">>]}

\* The inputs of the search specification: private recipes with one, two or
\* no ingredient; queries that are empty, blank, only commas, a term in
\* another case, a repeated term, terms no recipe has.
SearchNames == {<<"a">>, <<"c">>}
SearchIngredientTexts == {<<"x">>, <<"x", "\n", "y">>, <<"\n">>}
SingleTerms == {<<>>, <<" ">>, <<"e", "g", "g">>, <<" ", "X">>, <<"q">>}
MultiQueries ==
    {<<>>, <<",">>, <<"x", ",", "x">>, <<"g", ",", " ", "X", ",", "y">>, <<"q", ",", "y">>}
MustQueries == {<<>>, <<",">>, <<"x">>, <<"x", ",", "Y">>}
CanQueries == {<<>>, <<" ">>, <<"g">>, <<"y", ",", "g", ",", "y">>}

\* The accounts of the sign-out specification: two, each with files of its
\* own.
AccountEmails ==
    {<<"a", ".", "b", "@", "c", ".", "d">>, <<"e", "@", "c", ".", "d">>}

\* The login forms of the account specification: two addresses that differ
\* only in punctuation, one in another case, one with a leading blank, one
\* without a top-level domain; the right password, a short one, a wrong one.
AuthEmails ==
    {<<"a", ".", "b", "@", "c", ".", "d">>,
     <<"A", ".", "B", "@", "c", ".", "d">>,
     <<"a", "-", "b", "@", "c", ".", "d">>,
     <<" ", "a", ".", "b", "@", "c", ".", "d">>,
     <<"a", "@", "b">>}
AuthPasswords ==
    {<<"a", "b", "c", "1", "2">>, GoodPassword, <<"a", "b", "c", "1", "2", "4">>}
AuthSalts == {<<"0", "0">>, <<"f", "f">>}

\* Its sign-up forms: the well-filled ones for three of the addresses, with
\* either password of six characters and either salt, and forms with one or
\* two fields that the checks refuse.
AuthSignUpForms ==
    [name : {<<"A", "l">>},
     email : {<<"a", ".", "b", "@", "c", ".", "d">>,
              <<"A", ".", "B", "@", "c", ".", "d">>,
              <<"a", "-", "b", "@", "c", ".", "d">>},
     password : {GoodPassword},
     salt : AuthSalts]
    \cup
    [name : {<<>>, <<" ">>, <<"A", "l">>},
     email : {<<" ", "a", ".", "b", "@", "c", ".", "d">>, <<"a", "@", "b">>},
     password : {GoodPassword},
     salt : {<<"0", "0">>}]
    \cup
    [name : {<<>>, <<" ">>, <<"A", "l">>},
     email : {<<"a", ".", "b", "@", "c", ".", "d">>},
     password : {<<"a", "b", "c", "1", "2">>},
     salt : {<<"0", "0">>}]
    \cup
    [name : {<<>>, <<" ">>},
     email : {<<"a", ".", "b", "@", "c", ".", "d">>},
     password : {GoodPassword},
     salt : {<<"0", "0">>}]

\* ------------------------------------------------------------ specification
Init ==
    /\ users_json = <<>>
    /\ recipes_json \in RecipesJsonChoices
    /\ user_files = <<>>
    /\ session_state = [s \in Sessions |-> EmptySession]
    /\ heap = [s \in Sessions |-> <<>>]
    /\ notice = [s \in Sessions |-> ""]
    /\ shown = [s \in Sessions |-> NoSearch]

DoRegister(s) ==
    \E name \in UserNames, email \in Emails, password \in Passwords, salt \in Salts :
        Register(s, name, email, password, salt)

DoLogin(s) == \E email \in Emails, password \in Passwords : Login(s, email, password)

DoRecipeCardAdd(s) == \E a \in DOMAIN heap[s] : RecipeCardAdd(s, a)

DoRecipeCardRemove(s) == \E a \in DOMAIN heap[s] : RecipeCardRemove(s, a)

DoPageAddRecipe(s) ==
    \E name \in RecipeNames, category \in Categories, cook_time \in CookTimes,
       ingredients_text \in IngredientTexts, instructions \in InstructionTexts :
        PageAddRecipe(s, name, category, cook_time, ingredients_text, instructions)

DoEditRecipe(s) ==
    \E idx \in 1..MaxUserRecipes, new_name \in EditNames, new_category \in Categories,
       new_time \in EditTexts, new_ingredients \in EditTexts, new_instructions \in EditTexts :
        EditRecipe(s, idx, new_name, new_category, new_time, new_ingredients, new_instructions)

DoDeleteRecipe(s) == \E idx \in 1..MaxUserRecipes : DeleteRecipe(s, idx)

\* One browser session at work.
Next ==
    \/ DoRegister("tab1")
    \/ DoLogin("tab1")
    \/ Logout("tab1")
    \/ DoRecipeCardAdd("tab1")
    \/ DoRecipeCardRemove("tab1")
    \/ DoPageAddRecipe("tab1")
    \/ DoEditRecipe("tab1")
    \/ DoDeleteRecipe("tab1")

Spec == Init /\ [][Next]_vars

\* The accounts at work: every way to fill the sign-up and login forms, and
\* enough recipe activity for the per-user files to hold something.
DoRegisterAny(s) ==
    \E f \in AuthSignUpForms : Register(s, f.name, f.email, f.password, f.salt)

DoLoginAny(s) ==
    \E email \in AuthEmails, password \in AuthPasswords : Login(s, email, password)

DoPageAddRecipeOnce(s) ==
    \E name \in {<<"a">>} :
        PageAddRecipe(s, name, "healthy", <<>>, <<"x">>, <<"m">>)

NextAuth ==
    \/ DoRegisterAny("tab1")
    \/ DoLoginAny("tab1")
    \/ Logout("tab1")
    \/ DoPageAddRecipeOnce("tab1")
    \/ DoRecipeCardAdd("tab1")
    \/ DoDeleteRecipe("tab1")

SpecAuth == Init /\ [][NextAuth]_vars

\* The edit form at work: a session that adds private recipes, edits them
\* with every form and deletes them.
DoEditForm(s) ==
    \E idx \in 1..MaxUserRecipes, f \in EditForms :
        EditRecipe(s, idx, f.name, f.category, f.cook_time, f.ingredients, f.instructions)

NextEdit ==
    \/ DoRegister("tab1")
    \/ DoPageAddRecipe("tab1")
    \/ DoEditForm("tab1")
    \/ DoDeleteRecipe("tab1")

SpecEdit == Init /\ [][NextEdit]_vars

\* The search page at work: a session that adds and deletes private recipes
\* and searches the union in each mode.
DoPageAddRecipeSearch(s) ==
    \E name \in SearchNames, ingredients_text \in SearchIngredientTexts :
        PageAddRecipe(s, name, "healthy", <<>>, ingredients_text, <<"m">>)

DoSearchSingle(s) == \E term \in SingleTerms : SearchSingle(s, term)

DoSearchMulti(s) == \E terms_s \in MultiQueries : SearchMulti(s, terms_s)

DoSearchAdvanced(s) ==
    \E must \in MustQueries, can \in CanQueries : SearchAdvanced(s, must, can)

NextSearch ==
    \/ DoRegister("tab1")
    \/ DoPageAddRecipeSearch("tab1")
    \/ DoDeleteRecipe("tab1")
    \/ DoSearchSingle("tab1")
    \/ DoSearchMulti("tab1")
    \/ DoSearchAdvanced("tab1")

SpecSearch == Init /\ [][NextSearch]_vars

\* Two browser sessions of one user: the first signs up, the second logs in
\* to the same account, and both add recipes and favorite them.
DoPageAddRecipeTab(s) ==
    \E name \in SearchNames : PageAddRecipe(s, name, "healthy", <<>>, <<"x">>, <<"m">>)

NextTwoTabs ==
    \/ DoRegister("tab1")
    \/ DoLogin("tab2")
    \/ \E s \in Sessions : DoPageAddRecipeTab(s)
    \/ \E s \in Sessions : DoRecipeCardAdd(s)

SpecTwoTabs == Init /\ [][NextTwoTabs]_vars

\* Signing out and in again: one browser session that creates accounts, adds
\* a recipe, favorites recipes, logs out and logs in as either account, while
\* files of the data directory may get damaged.
DoRegisterAccount(s) ==
    \E email \in AccountEmails : Register(s, <<"A", "l">>, email, GoodPassword, <<"0", "0">>)

DoLoginAccount(s) == \E email \in AccountEmails : Login(s, email, GoodPassword)

DoDamageFile == \E file_path \in DOMAIN user_files : DamageFile(file_path)

NextAccounts ==
    \/ DoRegisterAccount("tab1")
    \/ DoLoginAccount("tab1")
    \/ Logout("tab1")
    \/ DoPageAddRecipeOnce("tab1")
    \/ DoRecipeCardAdd("tab1")
    \/ DoDamageFile

SpecAccounts == Init /\ [][NextAccounts]_vars

\* ------------------------------------------------------------ properties
\* The dicts of a session's lists, as values.
FavoriteValues(s) == deref(heap[s], session_state[s].favorites)
PrivateValues(s) == deref(heap[s], session_state[s].user_recipes)
UnionValues(s) == deref(heap[s], get_all_recipes(s))

\* C1: no two entries of a session's favorites list have the same (id, name).
C1_FavoritesIdentityUnique ==
    \A s \in Sessions :
        \A i, j \in 1..Len(FavoriteValues(s)) :
            i # j => ~(/\ FavoriteValues(s)[i].id = FavoriteValues(s)[j].id
                       /\ FavoriteValues(s)[i].name = FavoriteValues(s)[j].name)

\* C2: no two recipes returned by get_all_recipes() have the same id.
C2_UnionIdsUnique ==
    \A s \in Sessions :
        \A i, j \in 1..Len(UnionValues(s)) :
            i # j => UnionValues(s)[i].id # UnionValues(s)[j].id

\* A state where C2 is at work: a shared recipe (id 1) and two private ones
\* (ids 2 and 3), the second just added.
C2_Witness ==
    /\ Len(session_state["tab1"].recipes) = 1
    /\ Len(PrivateValues("tab1")) = 2
    /\ PrivateValues("tab1")[1].id = 2
    /\ PrivateValues("tab1")[2].id = 3
    /\ notice["tab1"] = "Recipe added!"

\* The step of session s is a successful add-recipe.
AddedRecipe(s) ==
    /\ notice'[s] = "Recipe added!"
    /\ Len(session_state'[s].user_recipes) = Len(session_state[s].user_recipes) + 1

\* C3: a recipe created by add-recipe gets id = (largest id of the union before
\* the add) + 1, or 1 when the union was empty; so its id is greater than
\* every id the union held.
C3_NewIdIsMaxPlusOne ==
    [][\A s \in Sessions :
          AddedRecipe(s) =>
              LET before == {UnionValues(s)[i].id : i \in 1..Len(UnionValues(s))}
                  added  == PrivateValues(s)'[Len(PrivateValues(s)')]
              IN /\ \A i \in before : i < added.id
                 /\ IF before = {} THEN added.id = 1 ELSE (added.id - 1) \in before]_vars

\* A state right after an add into an empty union (id 1), with a second
\* recipe then added on top of it (id 2).
C3_Witness ==
    /\ recipes_json = <<>>
    /\ notice["tab1"] = "Recipe added!"
    /\ Len(PrivateValues("tab1")) = 2
    /\ PrivateValues("tab1")[1].id = 1
    /\ PrivateValues("tab1")[2].id = 2

\* The name is taken in session s: equal, ignoring case and surrounding
\* whitespace, to the name of a recipe of the union.
NameTaken(s, name) ==
    \E i \in 1..Len(UnionValues(s)) :
        lower(strip(UnionValues(s)[i].name)) = lower(strip(name))

OthersThan(x, favs) == SelectSeq(favs, LAMBDA r : r.id # x.id \/ r.name # x.name)

\* C5: for every recipe x of a session and its favorites list, x is in the
\* favorites after add_to_favorites(x) and not in them after
\* remove_from_favorites(x), which drops exactly the entries with the
\* (id, name) of x.
C5_AddThenRemove ==
    \A s \in Sessions : \A a \in DOMAIN heap[s] :
        LET x == heap[s][a]
            added == deref(heap[s], add_to_favorites(s, a))
            removed == deref(heap[s], remove_from_favorites(s, a))
        IN /\ \E i \in 1..Len(added) : added[i].id = x.id /\ added[i].name = x.name
           /\ \A i \in 1..Len(removed) : removed[i].id # x.id \/ removed[i].name # x.name
           /\ removed = OthersThan(x, FavoriteValues(s))

\* A removal has just acted on a list of two favorites with the same id and
\* different names, and left the other one.
C5_Witness ==
    /\ notice["tab1"] = "Removed from favorites"
    /\ Len(FavoriteValues("tab1")) = 1
    /\ \E a \in DOMAIN heap["tab1"] :
          /\ heap["tab1"][a].id = FavoriteValues("tab1")[1].id
          /\ heap["tab1"][a].name # FavoriteValues("tab1")[1].name

\* C6 as stated: a favorite is a copy, so an edit-recipe leaves every entry
\* of the in-memory favorites as it was.
C6_EditLeavesFavorites ==
    [][\A s \in Sessions :
          \A idx \in 1..MaxUserRecipes, new_name \in EditNames, new_category \in Categories,
             new_time \in EditTexts, new_ingredients \in EditTexts,
             new_instructions \in EditTexts :
              EditRecipe(s, idx, new_name, new_category, new_time, new_ingredients,
                         new_instructions)
              => FavoriteValues(s)' = FavoriteValues(s)]_vars

\* C7 as stated: in a signed-in session the favorites file holds the
\* in-memory favorites and the user-recipes file the in-memory private set
\* (a file not yet written counts as the empty list).
C7_FilesMatchMemory ==
    \A s \in Sessions :
        SignedIn(s) =>
            /\ load_json(session_state[s].paths.favorites, <<>>) = FavoriteValues(s)
            /\ load_json(session_state[s].paths.user_recipes, <<>>) = PrivateValues(s)

\* C8 as stated: two accounts with different normalized emails have different
\* favorites files and different user-recipes files.
C8_AccountsHaveOwnFiles ==
    \A e1, e2 \in DOMAIN users_json :
        e1 # e2 =>
            /\ user_file_paths(e1).favorites # user_file_paths(e2).favorites
            /\ user_file_paths(e1).user_recipes # user_file_paths(e2).user_recipes

\* The email as the user store keys it: trimmed and lowercased.
NormalizedEmail(email) == lower(strip(email))

\* What makes a sign-up fail: a blank name, an email that is not
\* local@domain.tld, a password under six characters, an email already in use.
SignUpRejected(name, email, password) ==
    \/ \A i \in 1..Len(name) : name[i] \in Whitespace
    \/ ~MatchesEmailPattern(email)
    \/ Len(password) < 6
    \/ NormalizedEmail(email) \in DOMAIN users_json

\* C9: a rejected sign-up leaves the user store as it was and the session
\* signed out; any other sign-up adds exactly one account, under the
\* normalized email, and signs the session in as that account.
C9_RegisterOutcome ==
    [][\A s \in Sessions :
          \A f \in AuthSignUpForms :
              Register(s, f.name, f.email, f.password, f.salt) =>
                  IF SignUpRejected(f.name, f.email, f.password)
                  THEN /\ users_json' = users_json
                       /\ ~SignedIn(s)'
                  ELSE /\ DOMAIN users_json' = DOMAIN users_json \cup {NormalizedEmail(f.email)}
                       /\ \A k \in DOMAIN users_json : users_json'[k] = users_json[k]
                       /\ users_json'[NormalizedEmail(f.email)].email = NormalizedEmail(f.email)
                       /\ SignedIn(s)'
                       /\ session_state'[s].user.email = NormalizedEmail(f.email)]_vars

\* Two accounts exist, the second signed up from the sign-up form while the
\* first was in the store, and the session is signed in as one of them.
C9_Witness ==
    /\ Cardinality(DOMAIN users_json) = 2
    /\ notice["tab1"] = "Account created! Logging you in..."
    /\ SignedIn("tab1")

\* The account a login form is checked against, and whether the form's
\* password is the one the account was created with.
LoginAccepted(email, password) ==
    /\ NormalizedEmail(email) \in DOMAIN users_json
    /\ hash_password(password, users_json[NormalizedEmail(email)].salt)
           = users_json[NormalizedEmail(email)].password_hash

\* C10: a login signs the session in iff an account exists under the
\* normalized email and the salted hash of the password equals the stored
\* one; a refused login leaves the session signed out with nothing loaded.
\* Right after a sign-up, the store accepts the sign-up's email with the
\* sign-up's password and with no other password.
C10_LoginOutcome ==
    [][\A s \in Sessions :
          /\ \A email \in AuthEmails, password \in AuthPasswords :
                Login(s, email, password) =>
                    /\ SignedIn(s)' <=> LoginAccepted(email, password)
                    /\ LoginAccepted(email, password) =>
                          session_state'[s].user.email = NormalizedEmail(email)
                    /\ ~LoginAccepted(email, password) =>
                          /\ session_state'[s] = session_state[s]
                          /\ heap'[s] = heap[s]
          /\ \A f \in AuthSignUpForms :
                (Register(s, f.name, f.email, f.password, f.salt) /\ users_json' # users_json)
                    => \A other \in AuthPasswords :
                           LoginAccepted(f.email, other)' <=> other = f.password]_vars

\* A login has just signed the session in, with two accounts in the store,
\* and loaded the private recipe that the account's file holds.
C10_Witness ==
    /\ SignedIn("tab1")
    /\ notice["tab1"] = ""
    /\ Len(session_state["tab1"].user_recipes) = 1
    /\ Cardinality(DOMAIN users_json) = 2

\* The shared recipes a session holds in memory, as values.
SharedValues(s) == deref(heap[s], session_state[s].recipes)

\* C11: the shared set is immutable: no step changes recipes.json, and after
\* every step (add, edit, delete, add-to-favorites, remove-from-favorites,
\* login, logout) the shared recipes a session holds in memory are those of
\* recipes.json; so an edit or a delete changes private recipes only.
C11_SharedSetImmutable ==
    [][/\ recipes_json' = recipes_json
       /\ \A s \in Sessions :
             Has(s, "recipes")' => SharedValues(s)' = recipes_json']_vars

\* A private recipe has just been edited in a session that holds the shared
\* recipe, with the shared recipe among the favorites.
C11_Witness ==
    /\ notice["tab1"] = "Recipe updated successfully!"
    /\ SharedValues("tab1") = <<SharedRecipe>>
    /\ Len(PrivateValues("tab1")) = 1
    /\ \E i \in 1..Len(FavoriteValues("tab1")) : FavoriteValues("tab1")[i].id = 1

\* C12: edit-recipe is a merge: name, cook_time and instructions become the
\* submitted text, trimmed, when it is non-blank, and ingredients the list of
\* its non-blank lines, each trimmed; a blank field keeps the old value.  The
\* id, the creation fields, the length of the private set and every other
\* recipe of it are unchanged.
C12_EditIsMerge ==
    [][\A s \in Sessions : \A idx \in 1..MaxUserRecipes, f \in EditForms :
          EditRecipe(s, idx, f.name, f.category, f.cook_time, f.ingredients, f.instructions)
          => LET old == PrivateValues(s)
                 new == PrivateValues(s)'
                 blank(text) == \A i \in 1..Len(text) : text[i] \in Whitespace
             IN /\ Len(new) = Len(old)
                /\ \A j \in 1..Len(old) : j # idx => new[j] = old[j]
                /\ new[idx].id = old[idx].id
                /\ new[idx].created_by = old[idx].created_by
                /\ new[idx].created_date = old[idx].created_date
                /\ new[idx].name =
                       IF blank(f.name) THEN old[idx].name ELSE strip(f.name)
                /\ new[idx].cook_time =
                       IF blank(f.cook_time) THEN old[idx].cook_time ELSE strip(f.cook_time)
                /\ new[idx].instructions =
                       IF blank(f.instructions) THEN old[idx].instructions
                       ELSE strip(f.instructions)
                /\ new[idx].ingredients =
                       IF blank(f.ingredients) THEN old[idx].ingredients
                       ELSE stripped_lines(f.ingredients)]_vars

\* The second of two private recipes has just been edited with a form that
\* fills in the cook time only: it has the new cook time and its old name,
\* ingredients and instructions.
C12_Witness ==
    /\ notice["tab1"] = "Recipe updated successfully!"
    /\ Len(PrivateValues("tab1")) = 2
    /\ PrivateValues("tab1")[2].cook_time = <<"9">>
    /\ PrivateValues("tab1")[2].name = <<"b">>
    /\ PrivateValues("tab1")[2].ingredients = <<<<"x">>, <<"y">>>>
    /\ PrivateValues("tab1")[1].cook_time = Unknown

\* The recipe behind a card of the search page, and the place of a recipe in
\* get_all_recipes().
PlaceOf(s, a) == CHOOSE i \in 1..Len(get_all_recipes(s)) : get_all_recipes(s)[i] = a

\* C13 as stated: in a multi-term search that runs, the count shown for a
\* recipe is the number of distinct query terms that occur in one of its
\* ingredients, so a repeated term counts once; and a recipe is in the result
\* iff that number is greater than 0.
C13_ScoreCountsDistinctTerms ==
    [][\A s \in Sessions : \A terms_s \in MultiQueries :
          (SearchMulti(s, terms_s) /\ shown'[s].ran)
          => LET distinct == Range(query_terms(terms_s))
                 score(a) == Cardinality({t \in distinct : has_ingredient(heap[s][a], t)})
             IN /\ \A a \in Range(get_all_recipes(s)) :
                      a \in Range(shown'[s].results) <=> score(a) > 0
                /\ \A i \in 1..Len(shown'[s].results) :
                      shown'[s].matches[i] = score(shown'[s].results[i])]_vars

\* C14: in an advanced search that runs (one of the two boxes is not empty) a
\* recipe is in the result iff every must term occurs in one of its
\* ingredients and, when there are can terms, so does at least one of them;
\* so a recipe that lacks a must term is out whatever can terms it has.  No
\* recipe is listed twice.
C14_AdvancedMembership ==
    [][\A s \in Sessions : \A must \in MustQueries, can \in CanQueries :
          (SearchAdvanced(s, must, can) /\ shown'[s].ran)
          => LET must_terms == Range(query_terms(must))
                 can_terms == Range(query_terms(can))
                 results == shown'[s].results
             IN /\ \A a \in Range(get_all_recipes(s)) :
                      a \in Range(results) <=>
                          /\ \A t \in must_terms : has_ingredient(heap[s][a], t)
                          /\ can_terms # {} =>
                                \E t \in can_terms : has_ingredient(heap[s][a], t)
                /\ Range(results) \subseteq Range(get_all_recipes(s))
                /\ Cardinality(Range(results)) = Len(results)]_vars

\* An advanced search over three recipes has listed one: the shared recipe
\* has a can term but lacks the must term, a private recipe has the must term
\* but no can term, and the listed one has the must term and a can term that
\* the query gives twice.
C14_Witness ==
    /\ shown["tab1"].mode = "Advanced"
    /\ shown["tab1"].ran
    /\ Len(get_all_recipes("tab1")) = 3
    /\ SharedValues("tab1") = <<SharedRecipe>>
    /\ shown["tab1"].matches = <<2>>
    /\ \E a \in Range(session_state["tab1"].user_recipes) :
          /\ a \notin Range(shown["tab1"].results)
          /\ heap["tab1"][a].ingredients = <<<<"x">>>>

\* C15: the cards of a multi-term or advanced search are in descending order
\* of the count shown, and two cards with the same count are in the order of
\* get_all_recipes().
C15_RankedOrder ==
    [][\A s \in Sessions :
          (/\ shown'[s].ran
           /\ shown'[s].mode \in {"Multiple Ingredients", "Advanced"}
           /\ UNCHANGED <<session_state, heap>>)
          => LET results == shown'[s].results
                 matches == shown'[s].matches
             IN /\ Len(matches) = Len(results)
                /\ \A i, j \in 1..Len(results) :
                      i < j =>
                          /\ matches[i] >= matches[j]
                          /\ matches[i] = matches[j] =>
                                PlaceOf(s, results[i]) < PlaceOf(s, results[j])]_vars

\* A multi-term search has listed three recipes: the second private recipe
\* first, with two matches, then the shared recipe and the first private
\* recipe, with one match each.
C15_Witness ==
    /\ shown["tab1"].mode = "Multiple Ingredients"
    /\ shown["tab1"].matches = <<2, 1, 1>>
    /\ shown["tab1"].results =
           <<get_all_recipes("tab1")[3], get_all_recipes("tab1")[1], get_all_recipes("tab1")[2]>>

\* The text holds no term: nothing but whitespace and commas.
NoTerm(text) == \A i \in 1..Len(text) : text[i] \in Whitespace \cup {","}

\* C16 as stated: a search whose input holds no term (the single box, the
\* multi box, or both the must and the can box) lists no recipe.
C16_NoTermNoResult ==
    [][\A s \in Sessions :
          /\ \A term \in SingleTerms :
                (NoTerm(term) /\ SearchSingle(s, term)) => shown'[s].results = <<>>
          /\ \A terms_s \in MultiQueries :
                (NoTerm(terms_s) /\ SearchMulti(s, terms_s)) => shown'[s].results = <<>>
          /\ \A must \in MustQueries, can \in CanQueries :
                (NoTerm(must) /\ NoTerm(can) /\ SearchAdvanced(s, must, can))
                    => shown'[s].results = <<>>]_vars

\* The recipes of get_all_recipes() with an ingredient that contains the
\* text, ignoring case, in order.
WithIngredientContaining(s, text) ==
    SelectSeq(get_all_recipes(s),
              LAMBDA a : \E i \in 1..Len(heap[s][a].ingredients) :
                             contains(lower(heap[s][a].ingredients[i]), lower(text)))

\* C17 as stated: a single-term search for a text that holds a term lists
\* exactly the recipes with an ingredient that contains the text of the box,
\* ignoring case, in the order of get_all_recipes().
C17_SingleTermAsTyped ==
    [][\A s \in Sessions : \A term \in SingleTerms :
          (~NoTerm(term) /\ SearchSingle(s, term) /\ shown'[s].ran)
          => shown'[s].results = WithIngredientContaining(s, term)]_vars

\* C17 as the code has it: the text of the box is trimmed first, so blanks
\* around the term do not count.
C17_SingleTermTrimmed ==
    [][\A s \in Sessions : \A term \in SingleTerms :
          (~NoTerm(term) /\ SearchSingle(s, term) /\ shown'[s].ran)
          => shown'[s].results = WithIngredientContaining(s, strip(term))]_vars

\* A single-term search for "egg" has listed the shared recipe, whose
\* ingredient is "Eggs", and not the two private recipes.
C17_Witness ==
    /\ shown["tab1"].mode = "Single Ingredient"
    /\ shown["tab1"].ran
    /\ Len(get_all_recipes("tab1")) = 3
    /\ shown["tab1"].results = <<get_all_recipes("tab1")[1]>>
    /\ SharedValues("tab1") = <<SharedRecipe>>

\* C18: with two sessions of one user, a step of a session that saves leaves
\* the file equal to that session's in-memory list, whatever the file held
\* and whatever the other session holds in memory; the other session's
\* memory is not refreshed.  So the file is the list of the last saver, and
\* what the other session had saved is gone from it.
C18_LastWriterWins ==
    [][\A s \in Sessions :
          /\ DoRecipeCardAdd(s)
                => user_files'[session_state[s].paths.favorites] = FavoriteValues(s)'
          /\ (DoPageAddRecipeTab(s) /\ AddedRecipe(s))
                => user_files'[session_state[s].paths.user_recipes] = PrivateValues(s)'
          /\ (DoRecipeCardAdd(s) \/ DoPageAddRecipeTab(s))
                => \A o \in Sessions \ {s} :
                       session_state'[o] = session_state[o] /\ heap'[o] = heap[o]]_vars

\* A lost update: both sessions are signed in to the same account, the second
\* has just added a recipe, the user-recipes file holds the second session's
\* list, and the recipe the first session added and saved is not in the file.
C18_Witness ==
    /\ SignedIn("tab1") /\ SignedIn("tab2")
    /\ session_state["tab1"].user.email = session_state["tab2"].user.email
    /\ notice["tab2"] = "Recipe added!"
    /\ notice["tab1"] = "Recipe added!"
    /\ Len(PrivateValues("tab1")) = 1
    /\ load_json(session_state["tab2"].paths.user_recipes, <<>>) = PrivateValues("tab2")
    /\ \A i \in 1..Len(PrivateValues("tab2")) :
          PrivateValues("tab2")[i] # PrivateValues("tab1")[1]

\* C19 as stated: no two recipes returned by get_all_recipes() have names
\* that are equal after trimming and lowercasing.
C19_NamesUniqueIgnoringCase ==
    \A s \in Sessions :
        \A i, j \in 1..Len(UnionValues(s)) :
            i # j => lower(strip(UnionValues(s)[i].name)) # lower(strip(UnionValues(s)[j].name))

\* C20 as stated: right after a successful add-recipe the new recipe is not
\* a favorite: no entry of the favorites has its (id, name).
C20_NewRecipeNotFavorite ==
    [][\A s \in Sessions :
          AddedRecipe(s) =>
              ~in_favorites(PrivateValues(s)'[Len(PrivateValues(s)')], FavoriteValues(s)')]_vars

\* The list a data file holds: empty when the file is missing or damaged.
OnDisk(files, file_path) ==
    IF file_path \in DOMAIN files /\ files[file_path] # Damaged
    THEN files[file_path]
    ELSE <<>>

\* C21: a step that signs a session in (a login or a sign-up, after a logout
\* or not) leaves its favorites and its private recipes equal to the content
\* of the files of the account signed in, empty for a missing or damaged
\* file; a signed-out session holds no favorites, private recipes or file
\* paths; a signed-out session takes no recipe, favorites or search step, and
\* while no session is signed in the program writes no data file.
C21_NoLeakAcrossAccounts ==
    [][/\ \A s \in Sessions :
             /\ (~SignedIn(s) /\ SignedIn(s)')
                   => LET paths == user_file_paths(session_state'[s].user.email)
                      IN /\ session_state'[s].user.email \in DOMAIN users_json'
                         /\ session_state'[s].paths = paths
                         /\ FavoriteValues(s)' = OnDisk(user_files', paths.favorites)
                         /\ PrivateValues(s)' = OnDisk(user_files', paths.user_recipes)
             /\ ~SignedIn(s)'
                   => /\ session_state'[s].favorites = <<>>
                      /\ session_state'[s].user_recipes = <<>>
                      /\ session_state'[s].keys \subseteq {"recipes"}
             /\ ~SignedIn(s)
                   => /\ ~(\/ DoPageAddRecipe(s) \/ DoPageAddRecipeOnce(s)
                           \/ DoEditRecipe(s) \/ DoDeleteRecipe(s)
                           \/ DoRecipeCardAdd(s) \/ DoRecipeCardRemove(s)
                           \/ DoSearchSingle(s) \/ DoSearchMulti(s) \/ DoSearchAdvanced(s))
                      /\ shown'[s] = NoSearch
       /\ (\A s \in Sessions : ~SignedIn(s)) => (user_files' = user_files \/ DoDamageFile)]_vars

\* The session has just logged in to an account after another account was
\* signed in: it holds the one recipe of this account's file and no
\* favorites, while the files of the other account hold a recipe and a
\* favorite.
C21_Witness ==
    /\ SignedIn("tab1")
    /\ notice["tab1"] = ""
    /\ Len(PrivateValues("tab1")) = 1
    /\ FavoriteValues("tab1") = <<>>
    /\ \E e \in DOMAIN users_json :
          /\ e # session_state["tab1"].user.email
          /\ OnDisk(user_files, user_file_paths(e).favorites) # <<>>
          /\ OnDisk(user_files, user_file_paths(e).user_recipes) # <<>>

====
